---- MODULE Spec2Model ----
(***************************************************************************)
(* State-machine model of scylla-rust-wrapper's cluster configuration      *)
(* (cluster.rs) and statement binding (statement.rs).                      *)
(*                                                                         *)
(* Conventions.  A string is a sequence of one-character strings.  An      *)
(* Option<T> is a sequence of length 0 (None) or 1 (Some).  A C pointer    *)
(* argument to a string is an Option of a string: <<>> is the null pointer. *)
(* Every handler records the call it served in `call`: its name, its       *)
(* arguments and the status code it returned.                              *)
(***************************************************************************)
EXTENDS Integers, Sequences, FiniteSets, TLC

VARIABLES cluster, futures, exec_profiles, call, statements, arcs, prepared, bind_log

vars == <<cluster, futures, exec_profiles, call, statements, arcs, prepared, bind_log>>

\* what a handler of one side leaves alone on the other
statement_vars == <<statements, arcs, prepared, bind_log>>
cluster_vars == <<cluster, futures, exec_profiles>>

(* ------------------------------ bounds ---------------------------------- *)
\* longest contact-point string passed to set_contact_points
MaxStrLen == 3
\* longest contact-point list the model lets the cluster accumulate
MaxContacts == 2
\* largest parameter_count a statement is created with
MaxParams == 2
\* statement handles that can be live at once
MaxStatements == 2
\* session assemblies that can be in flight or finished at once
MaxFutures == 1
\* execution-profile handles that can be live at once
MaxProfiles == 2

(* ------------------------------ values ---------------------------------- *)
CASS_OK == "CASS_OK"
CASS_ERROR_LIB_BAD_PARAMS == "CASS_ERROR_LIB_BAD_PARAMS"
CASS_ERROR_LIB_INDEX_OUT_OF_BOUNDS == "CASS_ERROR_LIB_INDEX_OUT_OF_BOUNDS"
\* the "status" of a handler declared without a return value
NoStatus == "void"

None == <<>>
Some(x) == <<x>>
is_null(p) == p = <<>>

Min(S) == CHOOSE x \in S : \A y \in S : x <= y
Max(S) == CHOOSE x \in S : \A y \in S : x >= y

\* `x as u16`: the low 16 bits of a 32-bit signed integer
as_u16(x) == x % 65536

(* ------------------------------ strings --------------------------------- *)
Alphabet == {"a", " ", ","}
StringsUpTo(n) == UNION {[1..k -> Alphabet] : k \in 0..n}

is_whitespace(c) == c = " "

\* str::split(','): the pieces between the commas; the empty string has
\* exactly one (empty) piece, so the result is never empty
RECURSIVE split(_)
split(s) ==
    IF \E i \in 1..Len(s) : s[i] = ","
    THEN LET i == Min({j \in 1..Len(s) : s[j] = ","})
         IN  <<SubSeq(s, 1, i - 1)>> \o split(SubSeq(s, i + 1, Len(s)))
    ELSE <<s>>

RECURSIVE trim_start(_)
trim_start(s) ==
    IF s # <<>> /\ is_whitespace(Head(s)) THEN trim_start(Tail(s)) ELSE s

RECURSIVE trim_end(_)
trim_end(s) ==
    IF s # <<>> /\ is_whitespace(s[Len(s)])
    THEN trim_end(SubSeq(s, 1, Len(s) - 1))
    ELSE s

\* str::trim()
trim(s) == trim_end(trim_start(s))

\* argconv::ptr_to_cstr_n: None for a null pointer, otherwise the first
\* `size` characters behind it
ptr_to_cstr_n(ptr, size) ==
    IF is_null(ptr) THEN None ELSE Some(SubSeq(ptr[1], 1, size))

(* --------------------------- cluster: state ----------------------------- *)
\* LatencyAwarenessBuilder::new(): no parameter overridden yet
LatencyAwarenessBuilderNew ==
    [exclusion_threshold  |-> None,
     retry_period         |-> None,
     update_rate          |-> None,
     minimum_measurements |-> None]

LoadBalancingConfigDefault ==
    [token_awareness_enabled   |-> TRUE,
     dc_awareness              |-> None,
     latency_awareness_enabled |-> FALSE,
     latency_awareness_builder |-> LatencyAwarenessBuilderNew]

\* ExecutionProfileBuilder::default().consistency(Consistency::LocalOne)
DefaultExecutionProfileBuilder ==
    [consistency                  |-> Some("LocalOne"),
     serial_consistency           |-> None,
     retry_policy                 |-> None,
     speculative_execution_policy |-> None,
     load_balancing_policy        |-> None]

\* SessionBuilder::new(): only what this layer sets
\* `config` holds the overrides made through this layer: None is "as the
\* driver's SessionConfig::new() left it"
SessionBuilderNew ==
    [known_nodes |-> <<>>,
     user        |-> None,
     default_execution_profile_handle |-> None,
     config      |-> [fetch_schema_metadata |-> None,
                      tcp_nodelay           |-> None,
                      connect_timeout       |-> None,
                      compression           |-> None]]

DefaultPort == 9042

cass_cluster_new ==
    [session_builder                   |-> SessionBuilderNew,
     port                              |-> DefaultPort,
     contact_points                    |-> <<>>,
     use_beta_protocol_version         |-> FALSE,
     auth_username                     |-> None,
     auth_password                     |-> None,
     default_execution_profile_builder |-> DefaultExecutionProfileBuilder,
     execution_profile_map             |-> <<>>,
     load_balancing_config             |-> LoadBalancingConfigDefault,
     alive                             |-> TRUE]

Called(op, arg, rc) == call' = [op |-> op, arg |-> arg, rc |-> rc]

(* ------------------------ cluster: contact points ----------------------- *)
\* a variant that replaces the list instead of appending to it
cluster_set_contact_points_replacing(contact_points_raw, contact_points_length) ==
    LET parsed == ptr_to_cstr_n(contact_points_raw, contact_points_length) IN
    IF parsed = None
    THEN [contact_points |-> cluster.contact_points,
          rc |-> CASS_ERROR_LIB_BAD_PARAMS]
    ELSE LET contact_points == split(parsed[1]) IN
         [contact_points |->
              SelectSeq([i \in 1..Len(contact_points) |-> trim(contact_points[i])],
                        LAMBDA cp : cp # <<>>),
          rc |-> CASS_OK]

\* cluster_set_contact_points: the new contact-point list and the status
cluster_set_contact_points(contact_points_raw, contact_points_length) ==
    LET parsed == ptr_to_cstr_n(contact_points_raw, contact_points_length) IN
    IF parsed = None
    THEN [contact_points |-> cluster.contact_points,
          rc |-> CASS_ERROR_LIB_BAD_PARAMS]
    ELSE LET contact_points == split(parsed[1]) IN
         IF contact_points = <<>>  \* peek().is_none()
         THEN [contact_points |-> <<>>, rc |-> CASS_OK]
         ELSE [contact_points |->
                   cluster.contact_points
                   \o SelectSeq([i \in 1..Len(contact_points) |->
                                    trim(contact_points[i])],
                                LAMBDA cp : cp # <<>>),
               rc |-> CASS_OK]

cass_cluster_set_contact_points_n(contact_points_raw, contact_points_length) ==
    LET r == cluster_set_contact_points(contact_points_raw, contact_points_length) IN
    /\ cluster.alive
    /\ Len(r.contact_points) <= MaxContacts
    /\ cluster' = [cluster EXCEPT !.contact_points = r.contact_points]
    /\ Called("cass_cluster_set_contact_points_n",
              <<contact_points_raw, contact_points_length>>, r.rc)
    /\ UNCHANGED <<futures, exec_profiles, statement_vars>>

(* ----------------------------- cluster: port ---------------------------- *)
\* a variant whose check lets port 0 through
cass_cluster_set_port_accepting_zero(port) ==
    /\ cluster.alive
    /\ IF port < 0
       THEN /\ Called("cass_cluster_set_port", <<port>>, CASS_ERROR_LIB_BAD_PARAMS)
            /\ UNCHANGED cluster
       ELSE /\ cluster' = [cluster EXCEPT !.port = as_u16(port)]
            /\ Called("cass_cluster_set_port", <<port>>, CASS_OK)
    /\ UNCHANGED <<futures, exec_profiles, statement_vars>>

cass_cluster_set_port(port) ==
    /\ cluster.alive
    /\ IF port <= 0
       THEN /\ Called("cass_cluster_set_port", <<port>>, CASS_ERROR_LIB_BAD_PARAMS)
            /\ UNCHANGED cluster
       ELSE /\ cluster' = [cluster EXCEPT !.port = as_u16(port)]
            /\ Called("cass_cluster_set_port", <<port>>, CASS_OK)
    /\ UNCHANGED <<futures, exec_profiles, statement_vars>>

(* -------------------------- cluster: credentials ------------------------ *)
\* both pointers are unwrapped: the handler is only defined on text
cass_cluster_set_credentials_n(username_raw, username_length, password_raw, password_length) ==
    LET username == ptr_to_cstr_n(username_raw, username_length)
        password == ptr_to_cstr_n(password_raw, password_length)
    IN
    /\ cluster.alive
    /\ username # None
    /\ password # None
    /\ cluster' = [cluster EXCEPT !.auth_username = Some(username[1]),
                                  !.auth_password = Some(password[1])]
    /\ Called("cass_cluster_set_credentials_n",
              <<username_raw, username_length, password_raw, password_length>>,
              NoStatus)
    /\ UNCHANGED <<futures, exec_profiles, statement_vars>>

(* ----------------------- cluster: transport settings -------------------- *)
cass_cluster_set_use_schema(enabled) ==
    /\ cluster.alive
    /\ cluster' = [cluster EXCEPT
                     !.session_builder.config.fetch_schema_metadata = Some(enabled # 0)]
    /\ Called("cass_cluster_set_use_schema", <<enabled>>, NoStatus)
    /\ UNCHANGED <<futures, exec_profiles, statement_vars>>

cass_cluster_set_tcp_nodelay(enabled) ==
    /\ cluster.alive
    /\ cluster' = [cluster EXCEPT
                     !.session_builder.config.tcp_nodelay = Some(enabled # 0)]
    /\ Called("cass_cluster_set_tcp_nodelay", <<enabled>>, NoStatus)
    /\ UNCHANGED <<futures, exec_profiles, statement_vars>>

cass_cluster_set_connect_timeout(timeout_ms) ==
    /\ cluster.alive
    /\ cluster' = [cluster EXCEPT
                     !.session_builder.config.connect_timeout = Some(timeout_ms)]
    /\ Called("cass_cluster_set_connect_timeout", <<timeout_ms>>, NoStatus)
    /\ UNCHANGED <<futures, exec_profiles, statement_vars>>

\* the compression the driver is given: Some(None) is "no compression"
cass_cluster_set_compression(compression_type) ==
    LET compression ==
            CASE compression_type = "CASS_COMPRESSION_LZ4"    -> Some("Lz4")
              [] compression_type = "CASS_COMPRESSION_SNAPPY" -> Some("Snappy")
              [] OTHER                                        -> None
    IN
    /\ cluster.alive
    /\ cluster' = [cluster EXCEPT
                     !.session_builder.config.compression = Some(compression)]
    /\ Called("cass_cluster_set_compression", <<compression_type>>, NoStatus)
    /\ UNCHANGED <<futures, exec_profiles, statement_vars>>

(* ------------------------ cluster: protocol version --------------------- *)
cass_true == 1

cass_cluster_set_use_beta_protocol_version(enable) ==
    /\ cluster.alive
    /\ cluster' = [cluster EXCEPT !.use_beta_protocol_version = (enable = cass_true)]
    /\ Called("cass_cluster_set_use_beta_protocol_version", <<enable>>, CASS_OK)
    /\ UNCHANGED <<futures, exec_profiles, statement_vars>>

\* a variant that does not look at the beta flag
cass_cluster_set_protocol_version_ignoring_beta(protocol_version) ==
    /\ cluster.alive
    /\ IF protocol_version = 4
       THEN Called("cass_cluster_set_protocol_version", <<protocol_version>>, CASS_OK)
       ELSE Called("cass_cluster_set_protocol_version", <<protocol_version>>,
                   CASS_ERROR_LIB_BAD_PARAMS)
    /\ UNCHANGED <<cluster_vars, statement_vars>>

cass_cluster_set_protocol_version(protocol_version) ==
    /\ cluster.alive
    /\ IF protocol_version = 4 /\ ~cluster.use_beta_protocol_version
       THEN Called("cass_cluster_set_protocol_version", <<protocol_version>>, CASS_OK)
       ELSE Called("cass_cluster_set_protocol_version", <<protocol_version>>,
                   CASS_ERROR_LIB_BAD_PARAMS)
    /\ UNCHANGED <<cluster_vars, statement_vars>>

(* ------------------------- cluster: load balancing ---------------------- *)
\* a variant that goes back to LoadBalancingConfig::default()
cass_cluster_set_load_balance_round_robin_resetting ==
    /\ cluster.alive
    /\ cluster' = [cluster EXCEPT !.load_balancing_config = LoadBalancingConfigDefault]
    /\ Called("cass_cluster_set_load_balance_round_robin", <<>>, NoStatus)
    /\ UNCHANGED <<futures, exec_profiles, statement_vars>>

cass_cluster_set_load_balance_round_robin ==
    /\ cluster.alive
    /\ cluster' = [cluster EXCEPT !.load_balancing_config.dc_awareness = None]
    /\ Called("cass_cluster_set_load_balance_round_robin", <<>>, NoStatus)
    /\ UNCHANGED <<futures, exec_profiles, statement_vars>>

\* a variant that records local_dc before it looks at the legacy parameters
set_load_balance_dc_aware_n_late_check(load_balancing_config, local_dc_raw, local_dc_length, used_hosts_per_remote_dc, allow_remote_dcs_for_local_cl) ==
    IF is_null(local_dc_raw) \/ local_dc_length = 0
    THEN [config |-> load_balancing_config, rc |-> CASS_ERROR_LIB_BAD_PARAMS]
    ELSE LET local_dc == ptr_to_cstr_n(local_dc_raw, local_dc_length)[1]
             config   == [load_balancing_config EXCEPT
                            !.dc_awareness = Some([local_dc |-> local_dc])]
         IN  IF used_hosts_per_remote_dc # 0 \/ allow_remote_dcs_for_local_cl # 0
             THEN [config |-> config, rc |-> CASS_ERROR_LIB_BAD_PARAMS]
             ELSE [config |-> config, rc |-> CASS_OK]

\* set_load_balance_dc_aware_n: the new load-balancing config and the status
set_load_balance_dc_aware_n(load_balancing_config, local_dc_raw, local_dc_length, used_hosts_per_remote_dc, allow_remote_dcs_for_local_cl) ==
    IF is_null(local_dc_raw) \/ local_dc_length = 0
    THEN [config |-> load_balancing_config, rc |-> CASS_ERROR_LIB_BAD_PARAMS]
    ELSE IF used_hosts_per_remote_dc # 0 \/ allow_remote_dcs_for_local_cl # 0
    THEN [config |-> load_balancing_config, rc |-> CASS_ERROR_LIB_BAD_PARAMS]
    ELSE LET local_dc == ptr_to_cstr_n(local_dc_raw, local_dc_length)[1] IN
         [config |-> [load_balancing_config EXCEPT
                        !.dc_awareness = Some([local_dc |-> local_dc])],
          rc |-> CASS_OK]

cass_cluster_set_load_balance_dc_aware_n(local_dc_raw, local_dc_length, used_hosts_per_remote_dc, allow_remote_dcs_for_local_cl) ==
    LET r == set_load_balance_dc_aware_n(cluster.load_balancing_config,
                 local_dc_raw, local_dc_length,
                 used_hosts_per_remote_dc, allow_remote_dcs_for_local_cl)
    IN
    /\ cluster.alive
    /\ cluster' = [cluster EXCEPT !.load_balancing_config = r.config]
    /\ Called("cass_cluster_set_load_balance_dc_aware_n",
              <<local_dc_raw, local_dc_length, used_hosts_per_remote_dc,
                allow_remote_dcs_for_local_cl>>, r.rc)
    /\ UNCHANGED <<futures, exec_profiles, statement_vars>>

cass_cluster_set_token_aware_routing(enabled) ==
    /\ cluster.alive
    /\ cluster' = [cluster EXCEPT
                     !.load_balancing_config.token_awareness_enabled = (enabled # 0)]
    /\ Called("cass_cluster_set_token_aware_routing", <<enabled>>, NoStatus)
    /\ UNCHANGED <<futures, exec_profiles, statement_vars>>

cass_cluster_set_latency_aware_routing(enabled) ==
    /\ cluster.alive
    /\ cluster' = [cluster EXCEPT
                     !.load_balancing_config.latency_awareness_enabled = (enabled # 0)]
    /\ Called("cass_cluster_set_latency_aware_routing", <<enabled>>, NoStatus)
    /\ UNCHANGED <<futures, exec_profiles, statement_vars>>

\* _scale_ms is accepted and ignored
cass_cluster_set_latency_aware_routing_settings(exclusion_threshold, scale_ms, retry_period_ms, update_rate_ms, min_measured) ==
    /\ cluster.alive
    /\ cluster' = [cluster EXCEPT
                     !.load_balancing_config.latency_awareness_builder =
                        [exclusion_threshold  |-> Some(exclusion_threshold),
                         retry_period         |-> Some(retry_period_ms),
                         update_rate          |-> Some(update_rate_ms),
                         minimum_measurements |-> Some(min_measured)]]
    /\ Called("cass_cluster_set_latency_aware_routing_settings",
              <<exclusion_threshold, scale_ms, retry_period_ms, update_rate_ms,
                min_measured>>, NoStatus)
    /\ UNCHANGED <<futures, exec_profiles, statement_vars>>

(* ------------------ cluster: default execution profile ------------------ *)
\* TryFrom<CassConsistency> for Consistency: Err is None
Consistency_try_from(consistency) ==
    CASE consistency = "CASS_CONSISTENCY_ONE"    -> Some("One")
      [] consistency = "CASS_CONSISTENCY_QUORUM" -> Some("Quorum")
      [] OTHER                                   -> None

\* TryFrom<CassConsistency> for SerialConsistency: Err is None
SerialConsistency_try_from(consistency) ==
    CASE consistency = "CASS_CONSISTENCY_SERIAL"       -> Some("Serial")
      [] consistency = "CASS_CONSISTENCY_LOCAL_SERIAL" -> Some("LocalSerial")
      [] OTHER                                         -> None

\* a variant that starts again from ExecutionProfileBuilder::default()
cass_cluster_set_consistency_on_default(consistency) ==
    LET converted == Consistency_try_from(consistency) IN
    /\ cluster.alive
    /\ IF converted = None
       THEN /\ Called("cass_cluster_set_consistency", <<consistency>>,
                      CASS_ERROR_LIB_BAD_PARAMS)
            /\ UNCHANGED cluster
       ELSE /\ cluster' = [cluster EXCEPT !.default_execution_profile_builder =
                              [consistency                  |-> converted,
                               serial_consistency           |-> None,
                               retry_policy                 |-> None,
                               speculative_execution_policy |-> None,
                               load_balancing_policy        |-> None]]
            /\ Called("cass_cluster_set_consistency", <<consistency>>, CASS_OK)
    /\ UNCHANGED <<futures, exec_profiles, statement_vars>>

\* exec_profile_builder_modify hands the builder to the closure and stores
\* what the closure returns: here, the builder with one attribute set
cass_cluster_set_consistency(consistency) ==
    LET converted == Consistency_try_from(consistency) IN
    /\ cluster.alive
    /\ IF converted = None
       THEN /\ Called("cass_cluster_set_consistency", <<consistency>>,
                      CASS_ERROR_LIB_BAD_PARAMS)
            /\ UNCHANGED cluster
       ELSE /\ cluster' = [cluster EXCEPT
                              !.default_execution_profile_builder.consistency = converted]
            /\ Called("cass_cluster_set_consistency", <<consistency>>, CASS_OK)
    /\ UNCHANGED <<futures, exec_profiles, statement_vars>>

cass_cluster_set_serial_consistency(serial_consistency) ==
    LET converted == SerialConsistency_try_from(serial_consistency) IN
    /\ cluster.alive
    /\ IF converted = None
       THEN /\ Called("cass_cluster_set_serial_consistency", <<serial_consistency>>,
                      CASS_ERROR_LIB_BAD_PARAMS)
            /\ UNCHANGED cluster
       ELSE /\ cluster' = [cluster EXCEPT
                              !.default_execution_profile_builder.serial_consistency =
                                  Some(converted[1])]
            /\ Called("cass_cluster_set_serial_consistency", <<serial_consistency>>,
                      CASS_OK)
    /\ UNCHANGED <<futures, exec_profiles, statement_vars>>

\* `retry_policy` is the variant of the CassRetryPolicy pointed to; the
\* pointer is dereferenced unchecked: the handler is only defined on non-null
cass_cluster_set_retry_policy(retry_policy) ==
    /\ cluster.alive
    /\ cluster' = [cluster EXCEPT
                     !.default_execution_profile_builder.retry_policy = Some(retry_policy)]
    /\ Called("cass_cluster_set_retry_policy", <<retry_policy>>, NoStatus)
    /\ UNCHANGED <<futures, exec_profiles, statement_vars>>

cass_cluster_set_constant_speculative_execution_policy(constant_delay_ms, max_speculative_executions) ==
    /\ cluster.alive
    /\ IF constant_delay_ms < 0 \/ max_speculative_executions < 0
       THEN /\ Called("cass_cluster_set_constant_speculative_execution_policy",
                      <<constant_delay_ms, max_speculative_executions>>,
                      CASS_ERROR_LIB_BAD_PARAMS)
            /\ UNCHANGED cluster
       ELSE LET policy == [max_retry_count |-> max_speculative_executions,
                           retry_interval  |-> constant_delay_ms]
            IN  /\ cluster' = [cluster EXCEPT
                       !.default_execution_profile_builder.speculative_execution_policy =
                           Some(policy)]
                /\ Called("cass_cluster_set_constant_speculative_execution_policy",
                          <<constant_delay_ms, max_speculative_executions>>, CASS_OK)
    /\ UNCHANGED <<futures, exec_profiles, statement_vars>>

cass_cluster_set_no_speculative_execution_policy ==
    /\ cluster.alive
    /\ cluster' = [cluster EXCEPT
                     !.default_execution_profile_builder.speculative_execution_policy = None]
    /\ Called("cass_cluster_set_no_speculative_execution_policy", <<>>, CASS_OK)
    /\ UNCHANGED <<futures, exec_profiles, statement_vars>>

(* ----------------------- cluster: execution profiles -------------------- *)
\* ExecProfileName::try_from: the empty name is no profile name
ExecProfileName_try_from(name) == IF name = <<>> THEN None ELSE Some(name)

\* a variant that keeps the entry a key already has (entry().or_insert())
HashMap_or_insert(map, key, value) ==
    [k \in DOMAIN map \cup {key} |-> IF k \in DOMAIN map THEN map[k] ELSE value]

\* HashMap::insert: the entry for `key` is set, every other entry is kept
HashMap_insert(map, key, value) ==
    [k \in DOMAIN map \cup {key} |-> IF k = key THEN value ELSE map[k]]

\* cass_execution_profile_new: a profile with nothing set
CassExecProfileNew == [consistency |-> None]

\* a variant that stores a new, empty profile instead of the clone
cass_cluster_set_execution_profile_n_storing_new(name, name_length, profile) ==
    LET text == ptr_to_cstr_n(name, name_length)
        key  == IF text = None THEN None ELSE ExecProfileName_try_from(text[1])
    IN
    /\ cluster.alive
    /\ IF key = None
       THEN /\ Called("cass_cluster_set_execution_profile_n",
                      <<name, name_length, profile>>, CASS_ERROR_LIB_BAD_PARAMS)
            /\ UNCHANGED cluster
       ELSE IF is_null(profile)
       THEN /\ Called("cass_cluster_set_execution_profile_n",
                      <<name, name_length, profile>>, CASS_ERROR_LIB_BAD_PARAMS)
            /\ UNCHANGED cluster
       ELSE /\ cluster' = [cluster EXCEPT !.execution_profile_map =
                              HashMap_insert(@, key[1], CassExecProfileNew)]
            /\ Called("cass_cluster_set_execution_profile_n",
                      <<name, name_length, profile>>, CASS_OK)
    /\ UNCHANGED <<futures, exec_profiles, statement_vars>>

\* a variant that takes any text as a profile name, the empty one included
cass_cluster_set_execution_profile_n_any_name(name, name_length, profile) ==
    LET key == ptr_to_cstr_n(name, name_length) IN
    /\ cluster.alive
    /\ IF key = None
       THEN /\ Called("cass_cluster_set_execution_profile_n",
                      <<name, name_length, profile>>, CASS_ERROR_LIB_BAD_PARAMS)
            /\ UNCHANGED cluster
       ELSE IF is_null(profile)
       THEN /\ Called("cass_cluster_set_execution_profile_n",
                      <<name, name_length, profile>>, CASS_ERROR_LIB_BAD_PARAMS)
            /\ UNCHANGED cluster
       ELSE /\ cluster' = [cluster EXCEPT !.execution_profile_map =
                              HashMap_insert(@, key[1], profile[1])]
            /\ Called("cass_cluster_set_execution_profile_n",
                      <<name, name_length, profile>>, CASS_OK)
    /\ UNCHANGED <<futures, exec_profiles, statement_vars>>

\* `profile` is the pointer argument: None when null, else the value of the
\* CassExecProfile it points to, which the handler clones
cass_cluster_set_execution_profile_n(name, name_length, profile) ==
    LET text == ptr_to_cstr_n(name, name_length)
        key  == IF text = None THEN None ELSE ExecProfileName_try_from(text[1])
    IN
    /\ cluster.alive
    /\ IF key = None
       THEN /\ Called("cass_cluster_set_execution_profile_n",
                      <<name, name_length, profile>>, CASS_ERROR_LIB_BAD_PARAMS)
            /\ UNCHANGED cluster
       ELSE IF is_null(profile)
       THEN /\ Called("cass_cluster_set_execution_profile_n",
                      <<name, name_length, profile>>, CASS_ERROR_LIB_BAD_PARAMS)
            /\ UNCHANGED cluster
       ELSE /\ cluster' = [cluster EXCEPT !.execution_profile_map =
                              HashMap_insert(@, key[1], profile[1])]
            /\ Called("cass_cluster_set_execution_profile_n",
                      <<name, name_length, profile>>, CASS_OK)
    /\ UNCHANGED <<futures, exec_profiles, statement_vars>>

(* ------------------ execution profiles: the caller's handles ------------ *)
\* exec_profiles[p] is the CassExecProfile behind handle p, None once freed
IsLiveProfile(p) == p \in DOMAIN exec_profiles /\ exec_profiles[p] # None

\* `p` is the address Box::into_raw returns: any free one
cass_execution_profile_new(p) ==
    /\ p \in DOMAIN exec_profiles
    /\ exec_profiles[p] = None
    /\ exec_profiles' = [exec_profiles EXCEPT ![p] = Some(CassExecProfileNew)]
    /\ Called("cass_execution_profile_new", <<p>>, NoStatus)
    /\ UNCHANGED <<cluster, futures, statement_vars>>

cass_execution_profile_set_consistency(p, consistency) ==
    /\ IsLiveProfile(p)
    /\ exec_profiles' = [exec_profiles EXCEPT
                           ![p] = Some([@[1] EXCEPT !.consistency = Some(consistency)])]
    /\ Called("cass_execution_profile_set_consistency", <<p, consistency>>, CASS_OK)
    /\ UNCHANGED <<cluster, futures, statement_vars>>

cass_execution_profile_free(p) ==
    /\ IsLiveProfile(p)
    /\ exec_profiles' = [exec_profiles EXCEPT ![p] = None]
    /\ Called("cass_execution_profile_free", <<p>>, NoStatus)
    /\ UNCHANGED <<cluster, futures, statement_vars>>

\* cass_cluster_set_execution_profile_n called with the pointer of handle p
RegisterFromHandle(name, name_length, p) ==
    /\ IsLiveProfile(p)
    /\ cass_cluster_set_execution_profile_n(name, name_length, exec_profiles[p])

(* ------------------------ cluster: session assembly --------------------- *)
\* u16 Display: the decimal digits
RECURSIVE to_string(_)
to_string(n) ==
    LET digit(d) == <<"0", "1", "2", "3", "4", "5", "6", "7", "8", "9">>[d + 1] IN
    IF n < 10 THEN <<digit(n)>> ELSE to_string(n \div 10) \o <<digit(n % 10)>>

\* a variant that pairs every contact point with the default port
format_node_default_port(cp, port) == cp \o <<":">> \o to_string(DefaultPort)

\* format!("{}:{}", cp, port)
format_node(cp, port) == cp \o <<":">> \o to_string(port)

\* LoadBalancingConfig::build: the routing policy the driver is asked for
LoadBalancingConfig_build(self) ==
    LET base == [token_aware          |-> self.token_awareness_enabled,
                 preferred_datacenter |-> None,
                 permit_dc_failover   |-> FALSE,
                 latency_awareness    |-> None]
        with_dc == IF self.dc_awareness # None
                   THEN [base EXCEPT
                           !.preferred_datacenter = Some(self.dc_awareness[1].local_dc),
                           !.permit_dc_failover   = TRUE]
                   ELSE base
    IN  IF self.latency_awareness_enabled
        THEN [with_dc EXCEPT !.latency_awareness = Some(self.latency_awareness_builder)]
        ELSE with_dc

\* the synchronous part of build_session_builder: what the returned future
\* owns.  `snapshot` and `suspensions` are history: the cluster as it was at
\* this call, and how often a poll of the future has returned Pending.
build_session_builder_captures(c) ==
    LET known_nodes == [i \in 1..Len(c.contact_points) |->
                           format_node(c.contact_points[i], c.port)]
        with_nodes  == [c.session_builder EXCEPT !.known_nodes = @ \o known_nodes]
    IN  [state                     |-> "created",
         suspensions               |-> 0,
         execution_profile_builder |-> c.default_execution_profile_builder,
         load_balancing_config     |-> c.load_balancing_config,
         session_builder           |->
             IF c.auth_username # None /\ c.auth_password # None
             THEN [with_nodes EXCEPT
                     !.user = Some(<<c.auth_username[1], c.auth_password[1]>>)]
             ELSE with_nodes,
         output                    |-> None,
         snapshot                  |-> c]

build_session_builder ==
    /\ cluster.alive
    /\ Len(futures) < MaxFutures
    /\ futures' = Append(futures, build_session_builder_captures(cluster))
    /\ Called("build_session_builder", <<>>, NoStatus)
    /\ UNCHANGED <<cluster, exec_profiles, statement_vars>>

\* a variant of the async block that goes back to the cluster handle for the
\* load-balancing config
live_load_balancing_config(future) == cluster.load_balancing_config

\* the load-balancing config the async block builds the policy from
moved_load_balancing_config(future) == future.load_balancing_config

\* a variant of build() that awaits the task it spawns: Pending the first
\* time it is polled
poll_build_yielding(future) ==
    IF future.suspensions = 0
    THEN [ready |-> FALSE, value |-> None]
    ELSE [ready |-> TRUE,
          value |-> Some(LoadBalancingConfig_build(moved_load_balancing_config(future)))]

\* a poll of `load_balancing_config.clone().build()`: the body of build() has
\* no await, so it runs to its end and the poll is Ready
poll_build(future) ==
    [ready |-> TRUE,
     value |-> Some(LoadBalancingConfig_build(moved_load_balancing_config(future)))]

\* a poll of the async block, by a scheduler: it runs up to the await of
\* build(), returns Pending if build() is pending, and otherwise goes on to
\* its result
poll_session_builder(i) ==
    /\ i \in DOMAIN futures
    /\ futures[i].state # "done"
    /\ LET f              == futures[i]
           load_balancing == poll_build(f)
           profile        == [f.execution_profile_builder EXCEPT
                                !.load_balancing_policy = load_balancing.value]
       IN  futures' = [futures EXCEPT ![i] =
                         IF load_balancing.ready
                         THEN [f EXCEPT
                                 !.state  = "done",
                                 !.output = Some([f.session_builder EXCEPT
                                     !.default_execution_profile_handle = Some(profile)])]
                         ELSE [f EXCEPT
                                 !.state       = "suspended",
                                 !.suspensions = @ + 1]]
    /\ Called("poll_session_builder", <<i>>, NoStatus)
    /\ UNCHANGED <<cluster, exec_profiles, statement_vars>>

\* free_boxed: the handle is gone; nothing can be called on it again
cass_cluster_free ==
    /\ cluster.alive
    /\ cluster' = [cluster EXCEPT !.alive = FALSE]
    /\ Called("cass_cluster_free", <<>>, NoStatus)
    /\ UNCHANGED <<futures, exec_profiles, statement_vars>>

(* --------------------------- statements: state -------------------------- *)
\* MaybeUnset<Option<CqlValue>>
Unset == <<"Unset">>
Set(x) == <<"Set", x>>

\* Query::new() followed by disable_paging() and set_consistency(One)
NewQuery ==
    [tracing       |-> FALSE,
     page_size     |-> None,
     is_idempotent |-> FALSE,
     consistency   |-> Some("One")]

\* Statement: Simple owns its Query; Prepared holds an Arc, named by its address
Simple(query) == [tag |-> "Simple", query |-> Some(query), arc |-> None]
Prepared(addr) == [tag |-> "Prepared", query |-> None, arc |-> Some(addr)]

\* vec![Unset; parameter_count]
UnsetVec(parameter_count) == [i \in 1..parameter_count |-> Unset]

StatementHandles == DOMAIN statements
IsLive(h) == h \in StatementHandles /\ statements[h] # None

\* the history of a statement's table: per slot, the last bind call that
\* returned OK, if any
NoBinds(parameter_count) == [i \in 1..parameter_count |-> None]

(* ------------------------- statements: creation ------------------------- *)
\* `h` is the address Box::into_raw returns: any free one
cass_statement_new_n(h, parameter_count) ==
    /\ h \in StatementHandles
    /\ statements[h] = None
    /\ statements' = [statements EXCEPT ![h] =
                        Some([statement    |-> Simple(NewQuery),
                              bound_values |-> UnsetVec(parameter_count),
                              paging_state |-> None])]
    /\ bind_log' = [bind_log EXCEPT ![h] = NoBinds(parameter_count)]
    /\ Called("cass_statement_new_n", <<h, parameter_count>>, NoStatus)
    /\ UNCHANGED <<cluster_vars, arcs, prepared>>

(* --------------------------- statements: bind --------------------------- *)
\* a variant that grows the table when the index is one past its end
cass_statement_bind_maybe_unset_growing(bound_values, index, value) ==
    IF index > Len(bound_values)
    THEN [bound_values |-> bound_values, rc |-> CASS_ERROR_LIB_INDEX_OUT_OF_BOUNDS]
    ELSE IF index = Len(bound_values)
    THEN [bound_values |-> Append(bound_values, value), rc |-> CASS_OK]
    ELSE [bound_values |-> [bound_values EXCEPT ![index + 1] = value], rc |-> CASS_OK]

\* cass_statement_bind_maybe_unset on a statement's table: the new table and
\* the status
cass_statement_bind_maybe_unset(bound_values, index, value) ==
    IF index >= Len(bound_values)
    THEN [bound_values |-> bound_values, rc |-> CASS_ERROR_LIB_INDEX_OUT_OF_BOUNDS]
    ELSE [bound_values |-> [bound_values EXCEPT ![index + 1] = value], rc |-> CASS_OK]

\* a bind handler: `op` and `arg` name the call, `value` is what it binds
BindCall(op, h, index, arg, value) ==
    /\ IsLive(h)
    /\ LET r == cass_statement_bind_maybe_unset(statements[h][1].bound_values,
                                                index, value)
       IN  /\ statements' = [statements EXCEPT
                                ![h] = Some([@[1] EXCEPT !.bound_values = r.bound_values])]
           /\ bind_log' = IF r.rc = CASS_OK
                           THEN [bind_log EXCEPT ![h][index + 1] = Some(<<op, arg>>)]
                           ELSE bind_log
           /\ Called(op, <<h, index, arg>>, r.rc)
    /\ UNCHANGED <<cluster_vars, arcs, prepared>>

cass_statement_bind_cql_value(op, h, index, arg, value) ==
    BindCall(op, h, index, arg, Set(Some(value)))

\* a variant that leaves the slot as if it had never been bound
cass_statement_bind_null_as_unset(h, index) ==
    BindCall("cass_statement_bind_null", h, index, <<>>, Unset)

cass_statement_bind_null(h, index) ==
    BindCall("cass_statement_bind_null", h, index, <<>>, Set(None))

cass_statement_bind_int8(h, index, value) ==
    cass_statement_bind_cql_value("cass_statement_bind_int8", h, index, <<value>>,
                                  <<"TinyInt", value>>)

cass_statement_bind_int32(h, index, value) ==
    cass_statement_bind_cql_value("cass_statement_bind_int32", h, index, <<value>>,
                                  <<"Int", value>>)

cass_statement_bind_int64(h, index, value) ==
    cass_statement_bind_cql_value("cass_statement_bind_int64", h, index, <<value>>,
                                  <<"BigInt", value>>)

cass_statement_bind_bool(h, index, value) ==
    cass_statement_bind_cql_value("cass_statement_bind_bool", h, index, <<value>>,
                                  <<"Boolean", value # 0>>)

\* the pointer is unwrapped: the handler is only defined on text
cass_statement_bind_string_n(h, index, value, value_length) ==
    /\ ptr_to_cstr_n(value, value_length) # None
    /\ cass_statement_bind_cql_value("cass_statement_bind_string_n", h, index,
                                     <<value, value_length>>,
                                     <<"Text", ptr_to_cstr_n(value, value_length)[1]>>)

(* ---------------------- statements: prepared, shared -------------------- *)
\* the PreparedStatement a session hands out, before any per-call override
NewPreparedStatement ==
    [tracing       |-> FALSE,
     page_size     |-> None,
     is_idempotent |-> FALSE,
     consistency   |-> None]

\* an Arc allocation: the number of owners and the value they share
ArcInner(strong, value) == Some([strong |-> strong, value |-> value])
FreeAddress == Min({a \in DOMAIN arcs : arcs[a] = None})

\* cass_prepared_bind: a statement that shares the CassPrepared's Arc
cass_prepared_bind(h, p) ==
    /\ h \in StatementHandles
    /\ statements[h] = None
    /\ p \in DOMAIN prepared
    /\ prepared[p] # None
    /\ LET addr == prepared[p][1] IN
       /\ arcs' = [arcs EXCEPT ![addr] = Some([@[1] EXCEPT !.strong = @ + 1])]
       /\ statements' = [statements EXCEPT ![h] =
                           Some([statement    |-> Prepared(addr),
                                 bound_values |-> UnsetVec(0),
                                 paging_state |-> None])]
    /\ bind_log' = [bind_log EXCEPT ![h] = NoBinds(0)]
    /\ Called("cass_prepared_bind", <<h, p>>, NoStatus)
    /\ UNCHANGED <<cluster_vars, prepared>>

\* a variant of Arc::make_mut that clones only from the third owner on
Arc_make_mut_from_third_owner(addr) ==
    IF arcs[addr][1].strong <= 2
    THEN [arcs |-> arcs, addr |-> addr]
    ELSE [arcs |-> [arcs EXCEPT
                      ![addr] = Some([@[1] EXCEPT !.strong = @ - 1]),
                      ![FreeAddress] = ArcInner(1, arcs[addr][1].value)],
          addr |-> FreeAddress]

\* a variant of Arc::make_mut that hands out the shared value itself
Arc_make_mut_in_place(addr) == [arcs |-> arcs, addr |-> addr]

\* Arc::make_mut: the value itself when this is its only owner; otherwise a
\* fresh allocation holding a clone, and one owner fewer on the old one
Arc_make_mut(addr) ==
    IF arcs[addr][1].strong = 1
    THEN [arcs |-> arcs, addr |-> addr]
    ELSE [arcs |-> [arcs EXCEPT
                      ![addr] = Some([@[1] EXCEPT !.strong = @ - 1]),
                      ![FreeAddress] = ArcInner(1, arcs[addr][1].value)],
          addr |-> FreeAddress]

\* the value a per-call setter works on: the Query of a Simple statement, or
\* the PreparedStatement behind the Arc (make_mut's clone is equal to it)
InnerOf(h) ==
    IF statements[h][1].statement.tag = "Simple"
    THEN statements[h][1].statement.query[1]
    ELSE arcs[statements[h][1].statement.arc[1]][1].value

\* the match on the statement's variant that every per-call setter makes:
\* `inner` is the value after the setter's update; it is written to the
\* Query, or to the PreparedStatement that make_mut hands out
MutateStatement(op, h, arg, inner) ==
    /\ IsLive(h)
    /\ IF statements[h][1].statement.tag = "Simple"
       THEN /\ statements' = [statements EXCEPT ![h] =
                    Some([@[1] EXCEPT !.statement = Simple(inner)])]
            /\ UNCHANGED arcs
       ELSE LET m == Arc_make_mut(statements[h][1].statement.arc[1]) IN
            /\ arcs' = [m.arcs EXCEPT ![m.addr] = Some([@[1] EXCEPT !.value = inner])]
            /\ statements' = [statements EXCEPT ![h] =
                    Some([@[1] EXCEPT !.statement = Prepared(m.addr)])]
    /\ Called(op, <<h>> \o arg, CASS_OK)
    /\ UNCHANGED <<cluster_vars, prepared, bind_log>>

set_tracing(inner, enabled) == [inner EXCEPT !.tracing = enabled]
disable_paging(inner) == [inner EXCEPT !.page_size = None]
set_page_size(inner, page_size) == [inner EXCEPT !.page_size = Some(page_size)]
set_is_idempotent(inner, is_idempotent) == [inner EXCEPT !.is_idempotent = is_idempotent]

cass_statement_set_tracing(h, enabled) ==
    MutateStatement("cass_statement_set_tracing", h, <<enabled>>,
                    set_tracing(InnerOf(h), enabled # 0))

\* a variant in which a page size only takes effect while paging is enabled
cass_statement_set_paging_size_while_enabled(h, page_size) ==
    MutateStatement("cass_statement_set_paging_size", h, <<page_size>>,
                    IF page_size = -1 \/ InnerOf(h).page_size = None
                    THEN disable_paging(InnerOf(h))
                    ELSE set_page_size(InnerOf(h), page_size))

cass_statement_set_paging_size(h, page_size) ==
    MutateStatement("cass_statement_set_paging_size", h, <<page_size>>,
                    IF page_size = -1
                    THEN disable_paging(InnerOf(h))
                    ELSE set_page_size(InnerOf(h), page_size))

cass_statement_set_is_idempotent(h, is_idempotent) ==
    MutateStatement("cass_statement_set_is_idempotent", h, <<is_idempotent>>,
                    set_is_idempotent(InnerOf(h), is_idempotent # 0))

\* cass_prepared_free: the CassPrepared gives up its Arc
cass_prepared_free(p) ==
    /\ p \in DOMAIN prepared
    /\ prepared[p] # None
    /\ arcs' = [arcs EXCEPT ![prepared[p][1]] =
                  IF @[1].strong = 1 THEN None
                  ELSE Some([@[1] EXCEPT !.strong = @ - 1])]
    /\ prepared' = [prepared EXCEPT ![p] = None]
    /\ Called("cass_prepared_free", <<p>>, NoStatus)
    /\ UNCHANGED <<cluster_vars, statements, bind_log>>

(* --------------------------- statements: free --------------------------- *)
\* dropping an Arc: one owner fewer, and the value goes with the last one
Arc_drop(addr) ==
    IF arcs[addr][1].strong = 1
    THEN [arcs EXCEPT ![addr] = None]
    ELSE [arcs EXCEPT ![addr] = Some([@[1] EXCEPT !.strong = @ - 1])]

cass_statement_free(h) ==
    /\ IsLive(h)
    /\ statements' = [statements EXCEPT ![h] = None]
    /\ bind_log' = [bind_log EXCEPT ![h] = <<>>]
    /\ arcs' = IF statements[h][1].statement.tag = "Prepared"
               THEN Arc_drop(statements[h][1].statement.arc[1])
               ELSE arcs
    /\ Called("cass_statement_free", <<h>>, NoStatus)
    /\ UNCHANGED <<cluster_vars, prepared>>

(* ------------------------------ inputs ---------------------------------- *)
\* a pointer and the length passed with it: the null pointer, or a text
TextArgs(S) == {<<None, 0>>} \cup {<<Some(s), Len(s)>> : s \in S}
ContactPointInputs == TextArgs(StringsUpTo(MaxStrLen))
\* c_int arguments around the edges of the validation and of u16
PortInputs == {-2147483647 - 1, 0, 1, 65535, 65536}
CredentialInputs == {<<Some(<<"u">>), 1>>}
\* cass_bool_t
BoolInputs == {0, 1}

(* --------------------- specification: contact points -------------------- *)
InitIdle ==
    /\ cluster = cass_cluster_new
    /\ futures = <<>>
    /\ exec_profiles = <<>>
    /\ call = [op |-> "cass_cluster_new", arg |-> <<>>, rc |-> NoStatus]
    /\ statements = <<>>
    /\ arcs = <<>>
    /\ prepared = <<>>
    /\ bind_log = <<>>

NextContact ==
    \E p \in ContactPointInputs : cass_cluster_set_contact_points_n(p[1], p[2])

SpecContact == InitIdle /\ [][NextContact]_vars

(* -------------------- specification: session assembly ------------------ *)
NextAssemble ==
    \/ \E p \in TextArgs({<<"a">>}) : cass_cluster_set_contact_points_n(p[1], p[2])
    \/ \E port \in {0, 1} : cass_cluster_set_port(port)
    \/ \E u \in CredentialInputs, p \in CredentialInputs :
           cass_cluster_set_credentials_n(u[1], u[2], p[1], p[2])
    \/ cass_cluster_set_load_balance_dc_aware_n(Some(<<"e", "u">>), 2, 0, 0)
    \/ cass_cluster_set_load_balance_round_robin
    \/ cass_cluster_set_latency_aware_routing(1)
    \/ build_session_builder
    \/ \E i \in 1..MaxFutures : poll_session_builder(i)
    \/ cass_cluster_free

SpecAssemble == InitIdle /\ [][NextAssemble]_vars

(* ------------------------ specification: binding ----------------------- *)
\* one statement handle; indices up to one past the largest table
InitBind ==
    /\ cluster = cass_cluster_new
    /\ futures = <<>>
    /\ exec_profiles = <<>>
    /\ call = [op |-> "none", arg |-> <<>>, rc |-> NoStatus]
    /\ statements = <<None>>
    /\ bind_log = << <<>> >>
    /\ arcs = <<>>
    /\ prepared = <<>>

BindIndexInputs == 0..(MaxParams + 1)

NextBind ==
    \/ \E n \in 0..MaxParams : cass_statement_new_n(1, n)
    \/ cass_statement_free(1)
    \/ \E i \in BindIndexInputs : cass_statement_bind_null(1, i)
    \/ \E i \in BindIndexInputs, v \in {-128} : cass_statement_bind_int8(1, i, v)
    \/ \E i \in BindIndexInputs, v \in {7} : cass_statement_bind_int32(1, i, v)
    \/ \E i \in BindIndexInputs, v \in {7} : cass_statement_bind_int64(1, i, v)
    \/ \E i \in BindIndexInputs, v \in {0, 2} : cass_statement_bind_bool(1, i, v)
    \/ \E i \in BindIndexInputs, v \in {<<Some(<<"a", "b">>), 1>>} :
           cass_statement_bind_string_n(1, i, v[1], v[2])

SpecBind == InitBind /\ [][NextBind]_vars

(* ------------------ specification: shared statements -------------------- *)
\* a session has prepared one statement: its CassPrepared is the only owner of
\* the Arc; every statement handle is still free
InitStatements ==
    /\ cluster = cass_cluster_new
    /\ futures = <<>>
    /\ exec_profiles = <<>>
    /\ call = [op |-> "none", arg |-> <<>>, rc |-> NoStatus]
    /\ statements = [h \in 1..MaxStatements |-> None]
    /\ bind_log = [h \in 1..MaxStatements |-> <<>>]
    /\ arcs = [a \in 1..(MaxStatements + 1) |->
                 IF a = 1 THEN ArcInner(1, NewPreparedStatement) ELSE None]
    /\ prepared = <<Some(1)>>

\* a row count; the sentinel is exercised under SpecPaging
PageSizeInputs == {100}

NextStatements ==
    \/ \E h \in 1..MaxStatements : cass_statement_new_n(h, 0)
    \/ \E h \in 1..MaxStatements : cass_prepared_bind(h, 1)
    \/ \E h \in 1..MaxStatements, enabled \in BoolInputs :
           cass_statement_set_tracing(h, enabled)
    \/ \E h \in 1..MaxStatements, page_size \in PageSizeInputs :
           cass_statement_set_paging_size(h, page_size)
    \/ \E h \in 1..MaxStatements, is_idempotent \in {1} :
           cass_statement_set_is_idempotent(h, is_idempotent)
    \/ \E h \in 1..MaxStatements : cass_statement_free(h)
    \/ cass_prepared_free(1)

SpecStatements == InitStatements /\ [][NextStatements]_vars

(* ------------------------ specification: paging ------------------------ *)
\* the sentinel and two row counts
PagingInputs == {-1, 1, 100}

NextPaging ==
    \/ \E h \in 1..MaxStatements : cass_statement_new_n(h, 0)
    \/ \E h \in 1..MaxStatements : cass_prepared_bind(h, 1)
    \/ \E h \in 1..MaxStatements, page_size \in PagingInputs :
           cass_statement_set_paging_size(h, page_size)
    \/ \E h \in 1..MaxStatements : cass_statement_set_tracing(h, 1)
    \/ \E h \in 1..MaxStatements : cass_statement_free(h)

SpecPaging == InitStatements /\ [][NextPaging]_vars

(* ------------------- specification: load balancing ---------------------- *)
\* local_dc as (pointer, length): null, empty, "eu", and "eu" cut to "e"
LocalDcInputs ==
    {<<None, 0>>, <<None, 2>>, <<Some(<<>>), 0>>,
     <<Some(<<"e", "u">>), 0>>, <<Some(<<"e", "u">>), 1>>, <<Some(<<"e", "u">>), 2>>}
\* c_uint
UsedHostsInputs == {0, 1, 2147483647}
LatencySettingsInputs == {<<2, 1, 2000, 100, 40>>}

NextLoadBalancing ==
    \/ cass_cluster_set_load_balance_round_robin
    \/ \E dc \in LocalDcInputs, used \in UsedHostsInputs, allow \in BoolInputs :
           cass_cluster_set_load_balance_dc_aware_n(dc[1], dc[2], used, allow)
    \/ \E enabled \in BoolInputs : cass_cluster_set_token_aware_routing(enabled)
    \/ \E enabled \in BoolInputs : cass_cluster_set_latency_aware_routing(enabled)
    \/ \E s \in LatencySettingsInputs :
           cass_cluster_set_latency_aware_routing_settings(s[1], s[2], s[3], s[4], s[5])

SpecLoadBalancing == InitIdle /\ [][NextLoadBalancing]_vars

(* ------------------ specification: execution profiles ------------------- *)
\* values a CassExecProfile handle can hold
ExecProfileValues ==
    {[consistency |-> c] : c \in {None, Some("Quorum"), Some("One")}}
ProfilePointerInputs == {None} \cup {Some(v) : v \in ExecProfileValues}
ProfileNameInputs ==
    TextArgs({<<>>, <<"p", "1">>, <<"p", "2">>}) \cup {<<Some(<<"p", "1">>), 0>>}

NextProfiles ==
    \E name \in ProfileNameInputs, profile \in ProfilePointerInputs :
        cass_cluster_set_execution_profile_n(name[1], name[2], profile)

SpecProfiles == InitIdle /\ [][NextProfiles]_vars

(* --------------- specification: profiles and their handles -------------- *)
InitProfileHandles ==
    /\ cluster = cass_cluster_new
    /\ futures = <<>>
    /\ exec_profiles = [p \in 1..MaxProfiles |-> None]
    /\ call = [op |-> "cass_cluster_new", arg |-> <<>>, rc |-> NoStatus]
    /\ statements = <<>>
    /\ arcs = <<>>
    /\ prepared = <<>>
    /\ bind_log = <<>>

NextProfileHandles ==
    \/ \E p \in 1..MaxProfiles : cass_execution_profile_new(p)
    \/ \E p \in 1..MaxProfiles, c \in {"Quorum", "One"} :
           cass_execution_profile_set_consistency(p, c)
    \/ \E p \in 1..MaxProfiles : cass_execution_profile_free(p)
    \/ \E name \in TextArgs({<<"p", "1">>, <<"p", "2">>}), p \in 1..MaxProfiles :
           RegisterFromHandle(name[1], name[2], p)

SpecProfileHandles == InitProfileHandles /\ [][NextProfileHandles]_vars

(* ------------------- specification: the default profile ----------------- *)
\* CassConsistency values: convertible to a Consistency, to a
\* SerialConsistency, to neither
ConsistencyInputs ==
    {"CASS_CONSISTENCY_ONE", "CASS_CONSISTENCY_QUORUM", "CASS_CONSISTENCY_SERIAL",
     "CASS_CONSISTENCY_UNKNOWN"}
RetryPolicyInputs == {"DefaultRetryPolicy", "FallthroughRetryPolicy"}
\* delay (cass_int64_t) and executions (c_int) around zero
SpeculativeInputs == {-1, 0, 2} \X {-1, 0, 2}

NextDefaultProfile ==
    \/ \E c \in ConsistencyInputs : cass_cluster_set_consistency(c)
    \/ \E c \in ConsistencyInputs : cass_cluster_set_serial_consistency(c)
    \/ \E r \in RetryPolicyInputs : cass_cluster_set_retry_policy(r)
    \/ \E s \in SpeculativeInputs :
           cass_cluster_set_constant_speculative_execution_policy(s[1], s[2])
    \/ cass_cluster_set_no_speculative_execution_policy
    \/ \E enabled \in BoolInputs : cass_cluster_set_token_aware_routing(enabled)

SpecDefaultProfile == InitIdle /\ [][NextDefaultProfile]_vars

(* ------------------- specification: the whole cluster ------------------- *)
\* every group of setters, each with a few arguments
NextCluster ==
    \/ \E p \in TextArgs({<<>>, <<"a">>}) :
           cass_cluster_set_contact_points_n(p[1], p[2])
    \/ \E port \in PortInputs : cass_cluster_set_port(port)
    \/ \E u \in CredentialInputs, p \in CredentialInputs :
           cass_cluster_set_credentials_n(u[1], u[2], p[1], p[2])
    \/ cass_cluster_set_load_balance_round_robin
    \/ \E used \in {0, 1} :
           cass_cluster_set_load_balance_dc_aware_n(Some(<<"e", "u">>), 2, used, 0)
    \/ \E enabled \in BoolInputs : cass_cluster_set_token_aware_routing(enabled)
    \/ \E name \in TextArgs({<<>>, <<"p", "1">>}) :
           cass_cluster_set_execution_profile_n(name[1], name[2],
                                                Some([consistency |-> Some("Quorum")]))
    \/ \E enabled \in {0} : cass_cluster_set_use_schema(enabled)
    \/ \E enabled \in {0} : cass_cluster_set_tcp_nodelay(enabled)
    \/ \E timeout_ms \in {2000} : cass_cluster_set_connect_timeout(timeout_ms)
    \/ \E c \in {"CASS_COMPRESSION_LZ4"} : cass_cluster_set_compression(c)
    \/ \E enable \in {0, 1} : cass_cluster_set_use_beta_protocol_version(enable)
    \/ \E version \in {3, 4, 5} : cass_cluster_set_protocol_version(version)

SpecCluster == InitIdle /\ [][NextCluster]_vars

(* ------------------- properties: contact points, port ------------------- *)
\* what the text of a contact-point argument says, read off the text itself:
\* a field lies between two neighbouring boundaries (a comma, or an end)
Boundaries(s) == {0, Len(s) + 1} \cup {i \in 1..Len(s) : s[i] = ","}
FieldsOf(s) ==
    {f \in Boundaries(s) \X Boundaries(s) :
        /\ f[1] < f[2]
        /\ ~ \E m \in Boundaries(s) : f[1] < m /\ m < f[2]}
InkOf(s, f) == {k \in (f[1] + 1)..(f[2] - 1) : s[k] # " "}
NonBlankFields(s) == {f \in FieldsOf(s) : InkOf(s, f) # {}}
AllBlank(s) == NonBlankFields(s) = {}
\* the non-blank fields in input order, each cut to its first..last ink
EntriesOf(s) ==
    LET F     == NonBlankFields(s)
        n     == Cardinality(F)
        order == CHOOSE q \in [1..n -> F] : \A i, j \in 1..n : i < j => q[i][1] < q[j][1]
    IN  [i \in 1..n |-> SubSeq(s, Min(InkOf(s, order[i])), Max(InkOf(s, order[i])))]

\* the text a (pointer, length) argument pair denotes
TextOf(ptr, len) == [i \in 1..len |-> ptr[1][i]]

IsContactCall(c) ==
    c.op = "cass_cluster_set_contact_points_n" /\ c.arg[1] # None
ContactText(c) == TextOf(c.arg[1], c.arg[2])

\* C1: a call of set_contact_points whose text is empty, or has only empty or
\* whitespace-only entries, leaves the contact-point list empty and returns OK.
C1_BlankInputClears ==
    (IsContactCall(call) /\ AllBlank(ContactText(call)))
        => (cluster.contact_points = <<>> /\ call.rc = CASS_OK)

\* C2: a call of set_contact_points whose text has a non-blank entry yields the
\* prior list followed by the text's entries, trimmed, empty ones dropped, in
\* input order.
C2_NonBlankInputAppends ==
    [][(IsContactCall(call') /\ ~AllBlank(ContactText(call')))
         => /\ call'.rc = CASS_OK
            /\ cluster'.contact_points
                 = cluster.contact_points \o EntriesOf(ContactText(call'))]_vars

\* " a,": appended to a list that already held "aa"
C2_Witness ==
    /\ IsContactCall(call)
    /\ ContactText(call) = <<" ", "a", ",">>
    /\ cluster.contact_points = << <<"a", "a">>, <<"a">> >>

\* C4: the stored port is always in 1..65535, and after set_port returned OK it
\* is the argument that was passed.
C4_PortInRange ==
    /\ cluster.port \in 1..65535
    /\ (call.op = "cass_cluster_set_port" /\ call.rc = CASS_OK)
           => cluster.port = call.arg[1]

(* ---------------------- properties: invalid port ------------------------ *)
\* C3: set_port with a port <= 0 returns BadParams and leaves the whole
\* cluster configuration as it was; the port changes only in a set_port call
\* with a positive argument.
C3_BadPortChangesNothing ==
    [][/\ (call'.op = "cass_cluster_set_port" /\ call'.arg[1] <= 0)
           => (call'.rc = CASS_ERROR_LIB_BAD_PARAMS /\ cluster' = cluster)
       /\ cluster'.port # cluster.port
           => (call'.op = "cass_cluster_set_port" /\ call'.arg[1] > 0)]_vars

\* port 0 rejected on a cluster whose every group of settings was changed
C3_Witness ==
    /\ call = [op |-> "cass_cluster_set_port", arg |-> <<0>>,
               rc |-> CASS_ERROR_LIB_BAD_PARAMS]
    /\ cluster.port = 1
    /\ cluster.contact_points # <<>>
    /\ cluster.auth_username # None
    /\ cluster.load_balancing_config.dc_awareness # None
    /\ DOMAIN cluster.execution_profile_map # {}

(* -------------------- properties: dc-aware balancing -------------------- *)
IsDcAwareCall(c) == c.op = "cass_cluster_set_load_balance_dc_aware_n"
DcAwareArgsValid(c) ==
    /\ c.arg[1] # None
    /\ c.arg[2] > 0
    /\ c.arg[3] = 0
    /\ c.arg[4] = 0

\* C5: set_load_balance_dc_aware returns OK and records local_dc exactly when
\* local_dc is non-null and non-empty and both legacy parameters are zero;
\* otherwise it returns BadParams and the load-balancing config is unchanged.
C5_DcAwareValidation ==
    [][IsDcAwareCall(call') =>
         IF DcAwareArgsValid(call')
         THEN /\ call'.rc = CASS_OK
              /\ cluster'.load_balancing_config.dc_awareness
                    = Some([local_dc |-> TextOf(call'.arg[1], call'.arg[2])])
         ELSE /\ call'.rc = CASS_ERROR_LIB_BAD_PARAMS
              /\ cluster'.load_balancing_config = cluster.load_balancing_config]_vars

\* ("eu", 1, 0) rejected while local_dc is "e" from an earlier call
C5_Witness ==
    /\ IsDcAwareCall(call)
    /\ call.arg = <<Some(<<"e", "u">>), 2, 1, 0>>
    /\ call.rc = CASS_ERROR_LIB_BAD_PARAMS
    /\ cluster.load_balancing_config.dc_awareness = Some([local_dc |-> <<"e">>])

(* -------------------- properties: profile registration ------------------ *)
IsRegisterCall(c) == c.op = "cass_cluster_set_execution_profile_n"

\* C10: a successful registration sets the entry of its name to the profile
\* passed and keeps every other entry; the map grows by one for a new name and
\* keeps its size for a registered one.
C10_RegisterOverwrites ==
    [][(IsRegisterCall(call') /\ call'.rc = CASS_OK) =>
         LET name == TextOf(call'.arg[1], call'.arg[2])
             old  == cluster.execution_profile_map
             new  == cluster'.execution_profile_map
         IN  /\ DOMAIN new = DOMAIN old \cup {name}
             /\ new[name] = call'.arg[3][1]
             /\ \A n \in DOMAIN old \ {name} : new[n] = old[n]
             /\ Cardinality(DOMAIN new)
                  = Cardinality(DOMAIN old) + (IF name \in DOMAIN old THEN 0 ELSE 1)]_vars

\* "p1" registered with a second profile while "p2" holds another
C10_Witness ==
    /\ IsRegisterCall(call)
    /\ call.rc = CASS_OK
    /\ TextOf(call.arg[1], call.arg[2]) = <<"p", "1">>
    /\ DOMAIN cluster.execution_profile_map = {<<"p", "1">>, <<"p", "2">>}
    /\ cluster.execution_profile_map[<<"p", "1">>] = [consistency |-> Some("One")]
    /\ cluster.execution_profile_map[<<"p", "2">>] = [consistency |-> Some("Quorum")]

(* -------------------------- properties: binding ------------------------- *)
BindOps ==
    {"cass_statement_bind_null", "cass_statement_bind_int8",
     "cass_statement_bind_int32", "cass_statement_bind_int64",
     "cass_statement_bind_bool", "cass_statement_bind_string_n"}

\* C6: a bind with index >= parameter_count returns IndexOutOfBounds and leaves
\* the table as it was: same length, every slot in the same state.
C6_OutOfRangeBindRejected ==
    [][(call'.op \in BindOps
          /\ call'.arg[2] >= Len(statements[call'.arg[1]][1].bound_values))
         => /\ call'.rc = CASS_ERROR_LIB_INDEX_OUT_OF_BOUNDS
            /\ statements'[call'.arg[1]][1].bound_values
                 = statements[call'.arg[1]][1].bound_values]_vars

\* index 2 rejected on a two-slot table holding a value and a null
C6_Witness ==
    /\ call.op = "cass_statement_bind_int32"
    /\ call.arg[2] = 2
    /\ call.rc = CASS_ERROR_LIB_INDEX_OUT_OF_BOUNDS
    /\ statements[1] # None
    /\ statements[1][1].bound_values = <<Set(Some(<<"Int", 7>>)), Set(None)>>

\* the three states of a slot, and the slot a bind call asks for
SlotUnset == <<"Unset">>
ExplicitNull == <<"Set", <<>>>>
Value(v) == <<"Set", <<v>>>>
SlotAskedFor(op, arg) ==
    CASE op = "cass_statement_bind_null"     -> ExplicitNull
      [] op = "cass_statement_bind_int8"     -> Value(<<"TinyInt", arg[1]>>)
      [] op = "cass_statement_bind_int32"    -> Value(<<"Int", arg[1]>>)
      [] op = "cass_statement_bind_int64"    -> Value(<<"BigInt", arg[1]>>)
      [] op = "cass_statement_bind_bool"     -> Value(<<"Boolean", arg[1] # 0>>)
      [] op = "cass_statement_bind_string_n" -> Value(<<"Text", TextOf(arg[1], arg[2])>>)

\* C7: every slot holds what the most recent successful bind to its index
\* asked for (ExplicitNull for bind_null, Value(v) otherwise); a slot never
\* bound is Unset, which differs from ExplicitNull; the table keeps its length.
C7_LastWriteWins ==
    \A h \in StatementHandles :
        statements[h] # None =>
            LET table == statements[h][1].bound_values IN
            /\ Len(table) = Len(bind_log[h])
            /\ \A i \in 1..Len(table) :
                   IF bind_log[h][i] = None
                   THEN table[i] = SlotUnset /\ table[i] # ExplicitNull
                   ELSE table[i] = SlotAskedFor(bind_log[h][i][1][1], bind_log[h][i][1][2])

\* slot 0 bound to null and then to an integer, slot 1 never bound
C7_Witness ==
    /\ call.op = "cass_statement_bind_int32"
    /\ call.arg[2] = 0
    /\ call.rc = CASS_OK
    /\ statements[1] # None
    /\ statements[1][1].bound_values = <<Value(<<"Int", 7>>), SlotUnset>>

(* --------------------- properties: copy-on-write ------------------------ *)
MutatingOps ==
    {"cass_statement_set_tracing", "cass_statement_set_paging_size",
     "cass_statement_set_is_idempotent"}

\* the tracing flag, paging setting and idempotency flag seen through a handle
ObservedThrough(stmts, heap, h) ==
    LET inner == IF stmts[h][1].statement.tag = "Simple"
                 THEN stmts[h][1].statement.query[1]
                 ELSE heap[stmts[h][1].statement.arc[1]][1].value
    IN  <<inner.tracing, inner.page_size, inner.is_idempotent>>
\* the same, seen by the CassPrepared the statements were bound from
ObservedByPrepared(heap, owners, p) ==
    LET inner == heap[owners[p][1]][1].value
    IN  <<inner.tracing, inner.page_size, inner.is_idempotent>>

\* C8: a mutating operation on one statement handle changes nothing observed
\* through any other handle, nor through the prepared statement they share.
C8_CopyOnWriteIsolation ==
    [][call'.op \in MutatingOps =>
         /\ \A h \in StatementHandles \ {call'.arg[1]} :
                statements[h] # None =>
                    ObservedThrough(statements', arcs', h)
                        = ObservedThrough(statements, arcs, h)
         /\ \A p \in DOMAIN prepared :
                prepared[p] # None =>
                    ObservedByPrepared(arcs', prepared', p)
                        = ObservedByPrepared(arcs, prepared, p)]_vars

\* handles 1 and 2 were bound from one prepared statement; tracing was set
\* through handle 1 and is still off through handle 2, which still shares
SharesWithPrepared(h) ==
    /\ statements[h] # None
    /\ statements[h][1].statement.tag = "Prepared"
    /\ prepared[1] # None
    /\ statements[h][1].statement.arc = prepared[1]
C8_Witness ==
    /\ call.op = "cass_statement_set_tracing"
    /\ call.arg = <<1, 1>>
    /\ statements[1] # None
    /\ statements[1][1].statement.tag = "Prepared"
    /\ SharesWithPrepared(2)
    /\ arcs[prepared[1][1]][1].strong = 2
    /\ ObservedThrough(statements, arcs, 1)[1] = TRUE
    /\ ObservedThrough(statements, arcs, 2)[1] = FALSE

(* --------------------- properties: session assembly --------------------- *)
\* the session builder a cluster in state c stands for
PolicyFor(lb) ==
    [token_aware          |-> lb.token_awareness_enabled,
     preferred_datacenter |-> IF lb.dc_awareness = None THEN None
                              ELSE Some(lb.dc_awareness[1].local_dc),
     permit_dc_failover   |-> lb.dc_awareness # None,
     latency_awareness    |-> IF lb.latency_awareness_enabled
                              THEN Some(lb.latency_awareness_builder) ELSE None]
SessionBuilderFor(c) ==
    [known_nodes |-> [i \in 1..Len(c.contact_points) |->
                        c.contact_points[i] \o <<":">> \o to_string(c.port)],
     user        |-> IF c.auth_username # None /\ c.auth_password # None
                     THEN Some(<<c.auth_username[1], c.auth_password[1]>>)
                     ELSE None,
     config      |-> c.session_builder.config,
     default_execution_profile_handle |->
         Some([c.default_execution_profile_builder EXCEPT
                 !.load_balancing_policy = Some(PolicyFor(c.load_balancing_config))])]

\* C9: build_session_builder leaves the cluster as it was, and the session
\* builder a driven future yields is the one for the cluster as it was when
\* build_session_builder was called, whatever was called on the handle since.
C9_AssemblyIsSnapshot ==
    [][/\ call'.op = "build_session_builder" => cluster' = cluster
       /\ \A i \in DOMAIN futures' :
              futures'[i].state = "done"
                  => futures'[i].output = Some(SessionBuilderFor(futures'[i].snapshot))]_vars

\* a future driven after the handle was changed and then freed
C9_Witness ==
    /\ Len(futures) >= 1
    /\ futures[1].state = "done"
    /\ call.op = "poll_session_builder"
    /\ ~cluster.alive
    /\ futures[1].snapshot.contact_points = << <<"a">> >>
    /\ futures[1].snapshot.load_balancing_config.dc_awareness = None
    /\ cluster.contact_points = << <<"a">>, <<"a">> >>
    /\ cluster.load_balancing_config.dc_awareness # None
    /\ futures[1].output[1].known_nodes = << <<"a", ":", "9", "0", "4", "2">> >>

(* ------------------ properties: rejected registrations ------------------ *)
\* a registration whose name is null or empty, or whose profile is null
IsBadRegistration(c) ==
    /\ IsRegisterCall(c)
    /\ (c.arg[1] = None \/ c.arg[2] = 0 \/ c.arg[3] = None)

\* C11: a registration with a null name, an empty name or a null profile
\* returns BadParams and leaves the profile map as it was (same names, same
\* snapshots); the empty name is never a key of the map.
C11_BadRegistrationRejected ==
    [][/\ IsBadRegistration(call')
           => /\ call'.rc = CASS_ERROR_LIB_BAD_PARAMS
              /\ cluster'.execution_profile_map = cluster.execution_profile_map
       /\ <<>> \notin DOMAIN cluster'.execution_profile_map]_vars

\* the empty name rejected, with a profile, on a map that holds "p1" and "p2"
C11_Witness ==
    /\ IsRegisterCall(call)
    /\ call.arg[1] = Some(<<>>)
    /\ call.arg[3] # None
    /\ call.rc = CASS_ERROR_LIB_BAD_PARAMS
    /\ DOMAIN cluster.execution_profile_map = {<<"p", "1">>, <<"p", "2">>}

(* -------------------- properties: profile snapshots --------------------- *)
\* C12: the snapshot stored under a name is the value the source profile had
\* when it was registered, and it stays that value (and the name stays
\* registered) through every later change or free of a profile handle, until
\* a registration under the same name succeeds again.
C12_RegisteredSnapshotKept ==
    [][LET old == cluster.execution_profile_map
           new == cluster'.execution_profile_map
           registered == IF IsRegisterCall(call') /\ call'.rc = CASS_OK
                         THEN {TextOf(call'.arg[1], call'.arg[2])}
                         ELSE {}
       IN  /\ \A n \in registered :
                  /\ \E p \in DOMAIN exec_profiles :
                         exec_profiles[p] # None /\ new[n] = exec_profiles[p][1]
                  /\ new[n] = call'.arg[3][1]
                  /\ exec_profiles' = exec_profiles
           /\ \A n \in DOMAIN old \ registered :
                  n \in DOMAIN new /\ new[n] = old[n]]_vars

\* "p1" holds the snapshot taken when handle 1 had Quorum; handle 1 was then
\* set to One and freed, and handle 2 holds yet another value
C12_Witness ==
    /\ call.op = "cass_execution_profile_free"
    /\ call.arg = <<1>>
    /\ exec_profiles[1] = None
    /\ exec_profiles[2] = Some(CassExecProfileNew)
    /\ DOMAIN cluster.execution_profile_map = {<<"p", "1">>}
    /\ cluster.execution_profile_map[<<"p", "1">>] = [consistency |-> Some("Quorum")]

(* --------------------------- properties: paging ------------------------- *)
\* the paging setting seen through a handle: None when paging is disabled
PagingThrough(stmts, heap, h) == ObservedThrough(stmts, heap, h)[2]

\* C13: after set_paging_size the statement's paging is what that call alone
\* says, whatever it was before: disabled for -1, else enabled with the
\* argument as page size; and no other call changes a statement's paging.
C13_PagingLastCallWins ==
    [][/\ call'.op = "cass_statement_set_paging_size"
           => /\ call'.rc = CASS_OK
              /\ PagingThrough(statements', arcs', call'.arg[1])
                    = IF call'.arg[2] = -1 THEN None ELSE Some(call'.arg[2])
       /\ \A h \in StatementHandles :
              (/\ statements[h] # None
               /\ statements'[h] # None
               /\ ~(call'.op = "cass_statement_set_paging_size" /\ call'.arg[1] = h))
                  => PagingThrough(statements', arcs', h)
                        = PagingThrough(statements, arcs, h)]_vars

\* 100 set through handle 1 of a prepared statement whose paging is disabled;
\* handle 2, a simple statement, was set to 1
C13_Witness ==
    /\ call.op = "cass_statement_set_paging_size"
    /\ call.arg = <<1, 100>>
    /\ statements[1] # None
    /\ statements[1][1].statement.tag = "Prepared"
    /\ PagingThrough(statements, arcs, 1) = Some(100)
    /\ prepared[1] # None
    /\ arcs[prepared[1][1]][1].value.page_size = None
    /\ statements[2] # None
    /\ statements[2][1].statement.tag = "Simple"
    /\ PagingThrough(statements, arcs, 2) = Some(1)

(* ---------------------- properties: protocol version -------------------- *)
\* C14: set_protocol_version leaves the cluster as it was; it returns OK
\* exactly when the version is 4 and beta mode is off, BadParams otherwise
\* (so for every version, 4 included, while beta mode is on); beta mode is
\* what the last set_use_beta_protocol_version call asked for.
C14_ProtocolVersionValidated ==
    [][/\ call'.op = "cass_cluster_set_protocol_version"
           => /\ cluster' = cluster
              /\ call'.rc = IF call'.arg[1] = 4 /\ ~cluster.use_beta_protocol_version
                            THEN CASS_OK
                            ELSE CASS_ERROR_LIB_BAD_PARAMS
       /\ call'.op = "cass_cluster_set_use_beta_protocol_version"
           => cluster'.use_beta_protocol_version = (call'.arg[1] = 1)
       /\ cluster'.use_beta_protocol_version # cluster.use_beta_protocol_version
           => call'.op = "cass_cluster_set_use_beta_protocol_version"]_vars

\* version 4 rejected while beta mode is on
C14_Witness ==
    /\ call = [op |-> "cass_cluster_set_protocol_version", arg |-> <<4>>,
               rc |-> CASS_ERROR_LIB_BAD_PARAMS]
    /\ cluster.use_beta_protocol_version
    /\ cluster.port = 1

(* ----------------------- properties: default profile -------------------- *)
\* the attribute of the default profile each setter is for
OwnAttribute(op) ==
    CASE op = "cass_cluster_set_consistency"        -> "consistency"
      [] op = "cass_cluster_set_serial_consistency" -> "serial_consistency"
      [] op = "cass_cluster_set_retry_policy"       -> "retry_policy"
      [] op = "cass_cluster_set_constant_speculative_execution_policy"
                                                    -> "speculative_execution_policy"
      [] op = "cass_cluster_set_no_speculative_execution_policy"
                                                    -> "speculative_execution_policy"
DefaultProfileOps ==
    {"cass_cluster_set_consistency", "cass_cluster_set_serial_consistency",
     "cass_cluster_set_retry_policy",
     "cass_cluster_set_constant_speculative_execution_policy",
     "cass_cluster_set_no_speculative_execution_policy"}
\* the calls the setters must reject
MustBeRejected(c) ==
    \/ /\ c.op = "cass_cluster_set_constant_speculative_execution_policy"
       /\ (c.arg[1] < 0 \/ c.arg[2] < 0)
    \/ /\ c.op \in {"cass_cluster_set_consistency", "cass_cluster_set_serial_consistency"}
       /\ c.arg[1] = "CASS_CONSISTENCY_UNKNOWN"

\* C15: a default-profile setter changes at most its own attribute of the
\* default profile and nothing else of the cluster; a call with a negative
\* delay, a negative number of executions or an unconvertible consistency
\* returns BadParams, and a call that returns BadParams changes nothing.
C15_DefaultProfileSettersIndependent ==
    [][call'.op \in DefaultProfileOps =>
         LET old == cluster.default_execution_profile_builder
             new == cluster'.default_execution_profile_builder
         IN  /\ \A a \in DOMAIN old \ {OwnAttribute(call'.op)} : new[a] = old[a]
             /\ cluster' = [cluster EXCEPT !.default_execution_profile_builder = new]
             /\ MustBeRejected(call') => call'.rc = CASS_ERROR_LIB_BAD_PARAMS
             /\ call'.rc = CASS_ERROR_LIB_BAD_PARAMS => cluster' = cluster
             /\ (call'.op = "cass_cluster_set_constant_speculative_execution_policy"
                   /\ ~MustBeRejected(call'))
                    => new.speculative_execution_policy
                         = Some([max_retry_count |-> call'.arg[2],
                                 retry_interval  |-> call'.arg[1]])
             /\ call'.op = "cass_cluster_set_no_speculative_execution_policy"
                    => new.speculative_execution_policy = None
             /\ call'.op = "cass_cluster_set_retry_policy"
                    => new.retry_policy = Some(call'.arg[1])]_vars

\* consistency set to Quorum on a profile whose other three attributes were
\* set before, on a cluster with token awareness off
C15_Witness ==
    /\ call = [op |-> "cass_cluster_set_consistency",
               arg |-> <<"CASS_CONSISTENCY_QUORUM">>, rc |-> CASS_OK]
    /\ cluster.default_execution_profile_builder
         = [consistency                  |-> Some("Quorum"),
            serial_consistency           |-> Some("Serial"),
            retry_policy                 |-> Some("FallthroughRetryPolicy"),
            speculative_execution_policy |-> Some([max_retry_count |-> 2,
                                                   retry_interval  |-> 0]),
            load_balancing_policy        |-> None]
    /\ ~cluster.load_balancing_config.token_awareness_enabled

(* ------------------ properties: endpoints and credentials --------------- *)
\* the number a string of decimal digits denotes
DigitValue(c) == CHOOSE d \in 0..9 : <<"0", "1", "2", "3", "4", "5", "6", "7", "8", "9">>[d + 1] = c
IsDigit(c) == c \in {"0", "1", "2", "3", "4", "5", "6", "7", "8", "9"}
RECURSIVE DecimalValue(_)
DecimalValue(digits) ==
    IF digits = <<>> THEN 0
    ELSE 10 * DecimalValue(SubSeq(digits, 1, Len(digits) - 1))
           + DigitValue(digits[Len(digits)])
\* node is "cp:port": cp, a colon, and the port in decimal without padding
IsEndpoint(node, cp, port) ==
    LET digits == SubSeq(node, Len(cp) + 2, Len(node)) IN
    /\ Len(node) >= Len(cp) + 2
    /\ SubSeq(node, 1, Len(cp)) = cp
    /\ node[Len(cp) + 1] = ":"
    /\ \A k \in 1..Len(digits) : IsDigit(digits[k])
    /\ (Len(digits) > 1 => digits[1] # "0")
    /\ DecimalValue(digits) = port
\* the session builder a future holds: its result once driven
BuilderOf(f) == IF f.state = "done" THEN f.output[1] ELSE f.session_builder

\* C16: the endpoint list of an assembled session builder has one entry per
\* contact point of the cluster, in order, duplicates kept, each
\* "contact_point:port" with the cluster's port; credentials are attached
\* exactly when the cluster has both a username and a password.
C16_EndpointsAndCredentials ==
    \A i \in DOMAIN futures :
        LET c  == futures[i].snapshot
            sb == BuilderOf(futures[i])
        IN  /\ Len(sb.known_nodes) = Len(c.contact_points)
            /\ \A k \in 1..Len(c.contact_points) :
                   IsEndpoint(sb.known_nodes[k], c.contact_points[k], c.port)
            /\ (sb.user # None) <=> (c.auth_username # None /\ c.auth_password # None)
            /\ sb.user # None => sb.user = Some(<<c.auth_username[1], c.auth_password[1]>>)

\* a driven assembly of a cluster with contact point "a" twice, port 1 and
\* credentials
C16_Witness ==
    /\ Len(futures) >= 1
    /\ futures[1].state = "done"
    /\ futures[1].snapshot.port = 1
    /\ futures[1].snapshot.contact_points = << <<"a">>, <<"a">> >>
    /\ futures[1].output[1].known_nodes = << <<"a", ":", "1">>, <<"a", ":", "1">> >>
    /\ futures[1].output[1].user = Some(<< <<"u">>, <<"u">> >>)

(* ------------------ properties: clone only when shared ------------------ *)
\* the addresses that hold an allocation
Allocated(heap) == {x \in DOMAIN heap : heap[x] # None}

\* C17: a mutating operation on a Prepared statement works in place, with no
\* new allocation, when the handle is the only owner of the shared value;
\* when there are other owners it moves the handle to a fresh private copy,
\* and the original keeps its value with one owner fewer; every other
\* allocation and every other handle stay as they were.
C17_CloneOnlyWhenShared ==
    [][(/\ call'.op \in MutatingOps
        /\ statements[call'.arg[1]][1].statement.tag = "Prepared")
         => LET h == call'.arg[1]
                a == statements[h][1].statement.arc[1]
                b == statements'[h][1].statement.arc[1]
            IN  /\ statements'[h][1].statement.tag = "Prepared"
                /\ \A g \in StatementHandles \ {h} : statements'[g] = statements[g]
                /\ \A x \in DOMAIN arcs \ {a, b} : arcs'[x] = arcs[x]
                /\ IF arcs[a][1].strong = 1
                   THEN /\ b = a
                        /\ Allocated(arcs') = Allocated(arcs)
                        /\ arcs'[a][1].strong = 1
                   ELSE /\ b # a
                        /\ arcs[b] = None
                        /\ Allocated(arcs') = Allocated(arcs) \cup {b}
                        /\ arcs'[b][1].strong = 1
                        /\ arcs'[a][1].value = arcs[a][1].value
                        /\ arcs'[a][1].strong = arcs[a][1].strong - 1]_vars

\* handle 2 diverged into a private copy while the value was shared; the
\* prepared statement was freed; handle 1, now the only owner of the
\* original, set its page size in place
C17_Witness ==
    /\ call.op = "cass_statement_set_paging_size"
    /\ call.arg = <<1, 100>>
    /\ prepared[1] = None
    /\ statements[1] # None
    /\ statements[1][1].statement = Prepared(1)
    /\ arcs[1] = ArcInner(1, [NewPreparedStatement EXCEPT !.page_size = Some(100)])
    /\ statements[2] # None
    /\ statements[2][1].statement = Prepared(2)
    /\ arcs[2] = ArcInner(1, [NewPreparedStatement EXCEPT !.tracing = TRUE])

(* ------------------- properties: the deferred assembly ------------------ *)
\* what both readings of the assembly agree on: nothing is built before the
\* future is driven, and a finished future carries the policy built from the
\* load-balancing config it captured, on the profile it captured
PolicyBuiltWhenDriven(f) ==
    /\ f.state # "done" => f.output = None
    /\ f.state = "done" =>
           f.output[1].default_execution_profile_handle
             = Some([f.execution_profile_builder EXCEPT
                       !.load_balancing_policy =
                           Some(PolicyFor(f.snapshot.load_balancing_config))])

\* C18, as claimed: the assembly builds no policy when created; once driven
\* it suspends exactly once, while build() constructs the policy, and then
\* completes with the policy attached to the cloned default profile.
C18_SuspendsExactlyOnce ==
    \A i \in DOMAIN futures :
        /\ PolicyBuiltWhenDriven(futures[i])
        /\ futures[i].state = "created" => futures[i].suspensions = 0
        /\ futures[i].state = "done" => futures[i].suspensions = 1

\* C18, amended: the assembly builds no policy when created; once driven it
\* never suspends: build() is ready when first polled, and the poll that
\* starts the assembly completes it with the policy attached to the cloned
\* default profile.
C18_CompletesInFirstPoll ==
    \A i \in DOMAIN futures :
        /\ PolicyBuiltWhenDriven(futures[i])
        /\ futures[i].state \in {"created", "done"}
        /\ futures[i].suspensions = 0

\* a driven assembly of a dc-aware, latency-aware cluster
C18_Witness ==
    /\ Len(futures) >= 1
    /\ call.op = "poll_session_builder"
    /\ futures[1].state = "done"
    /\ futures[1].suspensions = 0
    /\ futures[1].output[1].default_execution_profile_handle[1].load_balancing_policy
         = Some([token_aware          |-> TRUE,
                 preferred_datacenter |-> Some(<<"e", "u">>),
                 permit_dc_failover   |-> TRUE,
                 latency_awareness    |-> Some(LatencyAwarenessBuilderNew)])

(* ---------------- properties: load-balancing setters -------------------- *)
\* the load-balancing configs that differ at most in field `own`
SameButFor(old, new, own) == \A f \in DOMAIN old \ {own} : new[f] = old[f]

\* what each load-balancing setter does to the config
LoadBalancingSettersIndependent ==
    LET old == cluster.load_balancing_config
        new == cluster'.load_balancing_config
    IN  /\ call'.op = "cass_cluster_set_token_aware_routing"
            => /\ SameButFor(old, new, "token_awareness_enabled")
               /\ new.token_awareness_enabled = (call'.arg[1] # 0)
        /\ call'.op = "cass_cluster_set_latency_aware_routing"
            => /\ SameButFor(old, new, "latency_awareness_enabled")
               /\ new.latency_awareness_enabled = (call'.arg[1] # 0)
        /\ (IsDcAwareCall(call') /\ call'.rc = CASS_OK)
            => /\ SameButFor(old, new, "dc_awareness")
               /\ new.dc_awareness # None
        /\ call'.op = "cass_cluster_set_load_balance_round_robin"
            => /\ SameButFor(old, new, "dc_awareness")
               /\ new.dc_awareness = None

====
